---- MODULE Spec2Model ----
(***************************************************************************)
(* Model of pkg/services/nvd.go: the retrying NVD fetcher, the CPE         *)
(* validator and normaliser, and the CVSS metric extractor.                *)
(*                                                                         *)
(* Strings are sequences of one-character strings.  Durations are in       *)
(* milliseconds.  CVSS scores are in tenths (75 is 7.5).  A Go error is    *)
(* the sequence of the errors of its wrap chain, outermost first; the nil  *)
(* error is the empty sequence.                                            *)
(***************************************************************************)
EXTENDS Integers, Sequences, FiniteSets, TLC

VARIABLES
    \* fetchNvdDataByCPE, one entry per running call
    pc,         \* position of the call: "loop", "fetch", "sleep", "done"
    attempt,    \* the loop variable of the call
    urlOK,      \* whether http.NewRequest accepts the call's URL
    hist,       \* outcomes the call's HTTP requests received, in order
    calls,      \* number of HTTP requests the call sent
    delays,     \* the delays the call slept, in order
    resp,       \* returned response
    err,        \* returned error
    overlapped, \* observer: some call stepped while another was in flight
    \* isValidCPE and standardizeCPE applied to one input
    cpeToks,    \* the tokens the input string was written from
    cpeIn,      \* the input string
    cpePc,      \* "input", "validated", "standardized", "revalidated"
    validErr,   \* error returned by isValidCPE
    stdOut,     \* string returned by standardizeCPE
    stdErr,     \* error returned by standardizeCPE
    \* extractMetrics applied to one metrics payload
    metricsIn,  \* the *dto.Metrics argument
    metricsOut, \* the values returned
    metPc,      \* "input", "extracted"
    \* calculateLikelihoodSimple applied to one record
    likeIn,     \* the tools.Vulnerability argument
    likeOut,    \* the likelihood returned
    likePc,     \* "input", "calculated"
    \* parseVendorComments applied to one list
    commentsIn, \* the []dto.VendorComment argument
    commentsOut, \* the slice returned
    comPc,      \* "input", "parsed"
    \* enrichVulnerabilityWithNvdData applied to one target and one source
    target,     \* the caller's record, behind the pointer vuln
    before,     \* the caller's record when the call was made
    source,     \* the dto.Vulnerability argument
    enrichErr,  \* the error returned
    riskCalls,  \* the arguments of the calls made to enums.CalculateRiskScore
    enPc        \* "input", "returned"

fetchVars == <<pc, attempt, urlOK, hist, calls, delays, resp, err, overlapped>>

cpeVars == <<cpeToks, cpeIn, cpePc, validErr, stdOut, stdErr>>

metricVars == <<metricsIn, metricsOut, metPc>>

likeVars == <<likeIn, likeOut, likePc>>

commentVars == <<commentsIn, commentsOut, comPc>>

enrichVars == <<target, before, source, enrichErr, riskCalls, enPc>>

vars == <<fetchVars, cpeVars, metricVars, likeVars, commentVars, enrichVars>>

\* what a component leaves alone: the variables of the other components
restOfFetch == <<cpeVars, metricVars, likeVars, commentVars, enrichVars>>
restOfCPE == <<fetchVars, metricVars, likeVars, commentVars, enrichVars>>
restOfMetrics == <<fetchVars, cpeVars, likeVars, commentVars, enrichVars>>
restOfLikelihood == <<fetchVars, cpeVars, metricVars, commentVars, enrichVars>>
restOfComments == <<fetchVars, cpeVars, metricVars, likeVars, enrichVars>>
restOfEnrich == <<fetchVars, cpeVars, metricVars, likeVars, commentVars>>

----------------------------------------------------------------------------
(* Bounds *)

NumCalls == 2

Calls == 1..NumCalls

\* longest input, in colon-separated tokens
MaxTokens == 14

\* most tokens of an input that differ from the well-formed ones
MaxEdits == 2

\* longest list of entries of one CVSS version
MaxList == 2

\* longest list of vendor comments
MaxComments == 3

----------------------------------------------------------------------------
(* Errors *)

NilErr == <<>>

ErrNVDServiceUnavailable == "ErrNVDServiceUnavailable"
ErrNVDAPIStatus == "ErrNVDAPIStatus"
ErrNVDDecode == "ErrNVDDecode"

\* errors.Is over a wrap chain
ErrorsIs(e, sentinel) == \E i \in 1..Len(e) : e[i] = sentinel

\* fmt.Errorf("<text>: %w", e)
Wrap(text, e) == <<text>> \o e

----------------------------------------------------------------------------
(* The NVD server and the transport, as seen by one request *)

NilResp == [isNil |-> TRUE, TotalResults |-> 0]

\* json.NewDecoder(resp.Body).Decode(&nvdResponse)
Decode(body) ==
    CASE body = "json1" -> [resp |-> [isNil |-> FALSE, TotalResults |-> 1], err |-> NilErr]
      [] body = "json0" -> [resp |-> [isNil |-> FALSE, TotalResults |-> 0], err |-> NilErr]
      [] OTHER -> [resp |-> NilResp, err |-> <<"json syntax error">>]

StatusOK == 200
StatusServiceUnavailable == 503
\* statuses that are neither 200 nor 503
OtherStatuses == {404}

Transport == [kind |-> "transport", status |-> 0, body |-> ""]
Http(s, b) == [kind |-> "http", status |-> s, body |-> b]

Outcomes ==
    { Http(s, "html") : s \in OtherStatuses } \cup
    { Transport,
      Http(StatusServiceUnavailable, "html"),
      Http(StatusOK, "json1"),
      Http(StatusOK, "json0"),
      Http(StatusOK, "html") }

----------------------------------------------------------------------------
(* Fetcher *)

maxRetries == 3
initialRetryDelay == 5000
maxRetryDelay == 15000

RECURSIVE Pow2(_)
\* 1 << uint(attempt)
Pow2(n) == IF n = 0 THEN 1 ELSE 2 * Pow2(n - 1)

\* faulty variant: the delay is not capped
calculateRetryDelayUncapped(a) ==
    LET delay == initialRetryDelay * Pow2(a)
        jitter == (delay * 2) \div 10
    IN  delay + jitter
\* delay and jitter as the code computes them, in milliseconds; int64(float64(delay)
\* * 0.2) is exactly a fifth of delay for the delays of attempts 0 to maxRetries
calculateRetryDelay(a) ==
    LET delay == initialRetryDelay * Pow2(a)
        jitter == (delay * 2) \div 10
        d == delay + jitter
    IN  IF d > maxRetryDelay THEN maxRetryDelay ELSE d

\* faulty variant: nothing is retried
shouldRetryNever(e) == FALSE
shouldRetry(e) == ErrorsIs(e, ErrNVDServiceUnavailable)

\* attemptFetch once the request was created and sent: o is what came back
\* faulty variant of classify: every status but 200 counts as unavailable
classifyBadStatusAsUnavailable(o) ==
    IF o.kind = "transport"
    THEN [resp |-> NilResp, err |-> Wrap("failed NVD API request", <<"transport error">>)]
    ELSE IF o.status # StatusOK
    THEN [resp |-> NilResp, err |-> <<ErrNVDServiceUnavailable>>]
    ELSE LET d == Decode(o.body)
         IN  IF d.err # NilErr
             THEN [resp |-> NilResp, err |-> <<ErrNVDDecode>> \o d.err]
             ELSE [resp |-> d.resp, err |-> NilErr]
classify(o) ==
    IF o.kind = "transport"
    THEN [resp |-> NilResp, err |-> Wrap("failed NVD API request", <<"transport error">>)]
    ELSE IF o.status = StatusServiceUnavailable
    THEN [resp |-> NilResp, err |-> <<ErrNVDServiceUnavailable>>]
    ELSE IF o.status # StatusOK
    THEN [resp |-> NilResp, err |-> <<ErrNVDAPIStatus, "status text">>]
    ELSE LET d == Decode(o.body)
         IN  IF d.err # NilErr
             THEN [resp |-> NilResp, err |-> <<ErrNVDDecode>> \o d.err]
             ELSE [resp |-> d.resp, err |-> NilErr]

\* attemptFetch when http.NewRequest rejects the URL: nothing is sent
requestError ==
    [resp |-> NilResp, err |-> Wrap("failed to create NVD API request", <<"url error">>)]

\* faulty variant: one attempt too many
LoopCondLoose(a) == a <= maxRetries + 1
\* for attempt := 0; attempt <= maxRetries; attempt++
LoopCond(a) == a <= maxRetries

\* faulty variant: one counter for the whole process
AttemptSlotShared(p) == 1
\* the attempt counter is a local of the call
AttemptSlot(p) == p

\* faulty variant: the cause is not wrapped
nonRetriableErrUnwrapped(e) == <<"non-retriable error for CPE">>
\* return nil, fmt.Errorf("non-retriable error for CPE %s: %w", cpe, err)
nonRetriableErr(e) == Wrap("non-retriable error for CPE", e)

\* faulty variant: the last error is not wrapped
exhaustedErrUnwrapped(e) == <<"failed NVD API request after 3 retries">>
\* return nil, fmt.Errorf("failed NVD API request after %d retries: %w", maxRetries, err)
exhaustedErr(e) == Wrap("failed NVD API request after 3 retries", e)

----------------------------------------------------------------------------
(* Strings *)

sCpe == <<"c", "p", "e">>
s23 == <<"2", ".", "3">>
sStar == <<"*">>
sSlash == <<"/">>
LegacyPrefix == <<"c", "p", "e", ":", "/">>
StrictPrefix == <<"c", "p", "e", ":", "2", ".", "3", ":">>

\* strings.HasPrefix
HasPrefix(s, pre) == Len(s) >= Len(pre) /\ SubSeq(s, 1, Len(pre)) = pre

\* strings.TrimPrefix
TrimPrefix(s, pre) == IF HasPrefix(s, pre) THEN SubSeq(s, Len(pre) + 1, Len(s)) ELSE s

RECURSIVE Split(_, _)
\* strings.Split with a one-character separator
Split(s, sep) ==
    IF \A i \in 1..Len(s) : s[i] # sep
    THEN <<s>>
    ELSE LET i == CHOOSE k \in 1..Len(s) :
                      s[k] = sep /\ \A j \in 1..(k - 1) : s[j] # sep
         IN  <<SubSeq(s, 1, i - 1)>> \o Split(SubSeq(s, i + 1, Len(s)), sep)

RECURSIVE Join(_, _)
\* strings.Join with a one-character separator
Join(parts, sep) ==
    IF parts = <<>> THEN <<>>
    ELSE IF Len(parts) = 1 THEN parts[1]
    ELSE parts[1] \o <<sep>> \o Join(Tail(parts), sep)

----------------------------------------------------------------------------
(* CPE validator *)

ErrInvalidCPE == "ErrInvalidCPE"

\* faulty variant: twelve parts are asked for
WrongPartCountTwelve(parts) == Len(parts) # 12
\* len(parts) != 13
WrongPartCount(parts) == Len(parts) # 13

\* faulty variant: the version is not checked
componentsToCheckNoVersion == {2, 3, 4}
\* the indexes of part, vendor, product and version
componentsToCheck == {2, 3, 4, 5}

\* parts is indexed from 0 in the code and from 1 here
isValidCPE(cpe) ==
    LET parts == Split(cpe, ":")
    IN  IF WrongPartCount(parts)
        THEN <<ErrInvalidCPE, "must have 13 colon-separated parts">>
        ELSE IF parts[1] # sCpe
        THEN <<ErrInvalidCPE, "must start with 'cpe'">>
        ELSE IF parts[2] # s23
        THEN <<ErrInvalidCPE, "must have '2.3' as the second part">>
        ELSE IF \E c \in componentsToCheck : parts[c + 1] = sStar
        THEN <<ErrInvalidCPE, "component must not be '*'">>
        ELSE NilErr

----------------------------------------------------------------------------
(* CPE normaliser *)

\* faulty variant: three parts are enough
TooShortLoose(parts) == Len(parts) < 3
\* len(parts) < 4
TooShort(parts) == Len(parts) < 4

\* pad with "*" to 11 components, or cut to 11
\* faulty variant: long inputs are not cut
PadOnly(parts) ==
    LET paddingNeeded == 11 - Len(parts)
    IN  IF paddingNeeded > 0
        THEN parts \o [i \in 1..paddingNeeded |-> sStar]
        ELSE parts
PadOrTruncate(parts) ==
    LET paddingNeeded == 11 - Len(parts)
    IN  IF paddingNeeded > 0
        THEN parts \o [i \in 1..paddingNeeded |-> sStar]
        ELSE IF paddingNeeded < 0
        THEN SubSeq(parts, 1, 11)
        ELSE parts

standardizeCPE(cpe) ==
    IF ~HasPrefix(cpe, LegacyPrefix)
    THEN [out |-> <<>>, err |-> <<"CPE does not start with 'cpe:/'">>]
    ELSE LET cpeWithoutPrefix == TrimPrefix(cpe, LegacyPrefix)
             parts == Split(cpeWithoutPrefix, ":")
         IN  IF TooShort(parts)
             THEN [out |-> <<>>, err |-> <<"CPE is too short">>]
             ELSE LET stripped == [parts EXCEPT ![1] = TrimPrefix(@, sSlash)]
                  IN  [out |-> StrictPrefix \o Join(PadOrTruncate(stripped), ":"),
                       err |-> NilErr]

----------------------------------------------------------------------------
(* Inputs of the CPE functions: the tokens of a well-formed strict or legacy *)
(* CPE, cut or extended to any length up to MaxTokens, with up to MaxEdits   *)
(* tokens replaced.                                                        *)

FieldChars == <<"a", "b", "c", "d", "f", "g", "h", "i", "j", "k", "l", "m", "n", "o", "q", "r">>

\* token i of the well-formed CPE whose second token is second
BaseToken(second, i) ==
    IF i = 1 THEN sCpe
    ELSE IF i = 2 THEN second
    ELSE <<FieldChars[i - 2]>>

SecondTokens == { s23, <<"/", "a">> }

EditTokens == { sStar, <<>>, <<"/", "/", "a">> }

EditSets(n) == { E \in SUBSET (1..n) : Cardinality(E) <= MaxEdits }

\* the token list of length n around second, with the tokens at E replaced by f
TokenList(n, second, E, f) ==
    [i \in 1..n |-> IF i \in E THEN f[i] ELSE BaseToken(second, i)]

----------------------------------------------------------------------------
(* CVSS metric extractor *)

\* a nil pointer to an optional string
NilPtr == "<nil>"

\* tools.MapCVSS: severity band of a base score, in tenths
MapCVSS(score) ==
    IF score <= 0 THEN "None"
    ELSE IF score < 40 THEN "Low"
    ELSE IF score < 70 THEN "Medium"
    ELSE IF score < 90 THEN "High"
    ELSE "Critical"

mapAccessTypeV31AndV30(attackVector) ==
    CASE attackVector = "NETWORK" -> "Network"
      [] attackVector = "ADJACENT_NETWORK" -> "AdjacentNetwork"
      [] attackVector = "LOCAL" -> "Local"
      [] attackVector = "PHYSICAL" -> "Physical"
      [] OTHER -> "Unknown"

mapAccessTypeV2(accessVector) ==
    CASE accessVector = "NETWORK" -> "Network"
      [] accessVector = "ADJACENT_NETWORK" -> "AdjacentNetwork"
      [] accessVector = "LOCAL" -> "Local"
      [] OTHER -> "Unknown"

mapComplexityTypeV31AndV30(complexity) ==
    CASE complexity = "LOW" -> "Low"
      [] complexity = "HIGH" -> "High"
      [] OTHER -> "Unknown"

mapComplexityTypeV2(complexity) ==
    CASE complexity = "HIGH" -> "High"
      [] complexity = "MEDIUM" -> "Medium"
      [] complexity = "LOW" -> "Low"
      [] OTHER -> "Unknown"

mapPrivilegesRequiredTypeV31AndV30(privReq) ==
    CASE privReq = "HIGH" -> "High"
      [] privReq = "LOW" -> "Low"
      [] privReq = "NONE" -> "None"
      [] OTHER -> "Unknown"

mapImpactTypeV31AndV30(cia) ==
    CASE cia = "HIGH" -> "High"
      [] cia = "LOW" -> "Low"
      [] cia = "NONE" -> "None"
      [] OTHER -> "Unknown"

\* faulty variant: the 2.0 impacts are read with the 3.x vocabulary
mapImpactTypeV2AsV3(cia) ==
    CASE cia = "HIGH" -> "High"
      [] cia = "LOW" -> "Low"
      [] cia = "NONE" -> "None"
      [] OTHER -> "Unknown"
mapImpactTypeV2(cia) ==
    CASE cia = "COMPLETE" -> "High"
      [] cia = "PARTIAL" -> "Low"
      [] cia = "NONE" -> "None"
      [] OTHER -> "Unknown"

mapSeverityType(severity) ==
    CASE severity = "CRITICAL" -> "Critical"
      [] severity = "HIGH" -> "High"
      [] severity = "MEDIUM" -> "Medium"
      [] severity = "LOW" -> "Low"
      [] severity = "NONE" -> "None"
      [] OTHER -> "Unknown"

mapExploitabilityV31AndV30(exploitability) ==
    CASE exploitability = NilPtr -> "Unknown"
      [] exploitability = "HIGH" -> "High"
      [] exploitability = "FUNCTIONAL" -> "Functional"
      [] exploitability = "PROOF_OF_CONCEPT" -> "ProofOfConcept"
      [] exploitability = "UNPROVEN" -> "Unproven"
      [] exploitability = "NOT_DEFINED" -> "Undefined"
      [] OTHER -> "Unknown"

mapExploitabilityV2(exploitability) ==
    CASE exploitability = NilPtr -> "Unknown"
      [] exploitability = "UNPROVEN" -> "Unproven"
      [] exploitability = "PROOF_OF_CONCEPT" -> "ProofOfConcept"
      [] exploitability = "FUNCTIONAL" -> "Functional"
      [] exploitability = "HIGH" -> "High"
      [] exploitability = "NOT_DEFINED" -> "Undefined"
      [] OTHER -> "Unknown"

\* faulty variant: access starts as Network
MetricDefaultsNetwork ==
    [baseCVSSScore |-> 0, baseSeverity |-> "Unknown", impactScore |-> 0,
     access |-> "Network", complexity |-> "Unknown", privilegesRequired |-> "Unknown",
     integrityImpact |-> "Unknown", availabilityImpact |-> "Unknown",
     exploitability |-> [Score |-> 0, Exploitability |-> "Unknown"]]
\* the values extractMetrics starts from
MetricDefaults ==
    [baseCVSSScore |-> 0, baseSeverity |-> "Unknown", impactScore |-> 0,
     access |-> "Unknown", complexity |-> "Unknown", privilegesRequired |-> "Unknown",
     integrityImpact |-> "Unknown", availabilityImpact |-> "Unknown",
     exploitability |-> [Score |-> 0, Exploitability |-> "Unknown"]]

\* the entry a branch reads: index 0 of the list
FirstEntry(list) == list[1]

\* the branch of the if / else-if chain that runs
\* faulty variant: the chain tests the lists in the reverse order
SelectedVersionOldestFirst(metrics) ==
    IF Len(metrics.CvssMetricV2) > 0 THEN "V2"
    ELSE IF Len(metrics.CvssMetricV30) > 0 THEN "V30"
    ELSE IF Len(metrics.CvssMetricV31) > 0 THEN "V31"
    ELSE "none"
SelectedVersion(metrics) ==
    IF Len(metrics.CvssMetricV31) > 0 THEN "V31"
    ELSE IF Len(metrics.CvssMetricV30) > 0 THEN "V30"
    ELSE IF Len(metrics.CvssMetricV2) > 0 THEN "V2"
    ELSE "none"

extractMetrics(metrics) ==
    IF metrics.isNil THEN MetricDefaults
    ELSE CASE SelectedVersion(metrics) = "V31" ->
                LET m == FirstEntry(metrics.CvssMetricV31)
                    cvssDataV31 == m.CvssData
                IN  [baseCVSSScore |-> cvssDataV31.BaseScore,
                     baseSeverity |-> mapSeverityType(cvssDataV31.BaseSeverity),
                     impactScore |-> m.ImpactScore,
                     access |-> mapAccessTypeV31AndV30(cvssDataV31.AttackVector),
                     complexity |-> mapComplexityTypeV31AndV30(cvssDataV31.AttackComplexity),
                     privilegesRequired |->
                         mapPrivilegesRequiredTypeV31AndV30(cvssDataV31.PrivilegesRequired),
                     integrityImpact |-> mapImpactTypeV31AndV30(cvssDataV31.IntegrityImpact),
                     availabilityImpact |->
                         mapImpactTypeV31AndV30(cvssDataV31.AvailabilityImpact),
                     exploitability |->
                         [Score |-> m.ExploitabilityScore,
                          Exploitability |->
                              mapExploitabilityV31AndV30(cvssDataV31.ExploitCodeMaturity)]]
           [] SelectedVersion(metrics) = "V30" ->
                LET m == FirstEntry(metrics.CvssMetricV30)
                    cvssDataV30 == m.CvssData
                IN  [baseCVSSScore |-> cvssDataV30.BaseScore,
                     baseSeverity |-> mapSeverityType(cvssDataV30.BaseSeverity),
                     impactScore |-> m.ImpactScore,
                     access |-> mapAccessTypeV31AndV30(cvssDataV30.AttackVector),
                     complexity |-> mapComplexityTypeV31AndV30(cvssDataV30.AttackComplexity),
                     privilegesRequired |->
                         mapPrivilegesRequiredTypeV31AndV30(cvssDataV30.PrivilegesRequired),
                     integrityImpact |-> mapImpactTypeV31AndV30(cvssDataV30.IntegrityImpact),
                     availabilityImpact |->
                         mapImpactTypeV31AndV30(cvssDataV30.AvailabilityImpact),
                     exploitability |->
                         [Score |-> m.ExploitabilityScore,
                          Exploitability |->
                              mapExploitabilityV31AndV30(cvssDataV30.ExploitCodeMaturity)]]
           [] SelectedVersion(metrics) = "V2" ->
                LET m == FirstEntry(metrics.CvssMetricV2)
                    cvssDataV2 == m.CvssData
                IN  [MetricDefaults EXCEPT
                         !.baseCVSSScore = cvssDataV2.BaseScore,
                         !.impactScore = m.ImpactScore,
                         !.baseSeverity = MapCVSS(cvssDataV2.BaseScore),
                         !.access = mapAccessTypeV2(cvssDataV2.AccessVector),
                         !.complexity = mapComplexityTypeV2(cvssDataV2.AccessComplexity),
                         !.integrityImpact = mapImpactTypeV2(cvssDataV2.IntegrityImpact),
                         !.availabilityImpact = mapImpactTypeV2(cvssDataV2.AvailabilityImpact),
                         !.exploitability =
                             [Score |-> m.ExploitabilityScore,
                              Exploitability |-> mapExploitabilityV2(cvssDataV2.Exploitability)]]
           [] OTHER -> MetricDefaults

----------------------------------------------------------------------------
(* Inputs of the extractor.  An entry of the list under study varies one   *)
(* field of a sample entry over the field's vocabulary and one value       *)
(* outside it; the entries after it, and the other lists, are drawn from   *)
(* two other samples.                                                      *)

AttackVectors == {"NETWORK", "ADJACENT_NETWORK", "LOCAL", "PHYSICAL", "OTHER"}
Complexities == {"LOW", "MEDIUM", "HIGH", "OTHER"}
Privileges == {"NONE", "LOW", "HIGH", "OTHER"}
CiaV3 == {"NONE", "LOW", "HIGH", "OTHER"}
CiaV2 == {"NONE", "PARTIAL", "COMPLETE", "OTHER"}
Severities == {"NONE", "LOW", "MEDIUM", "HIGH", "CRITICAL", "OTHER"}
Maturities ==
    {NilPtr, "UNPROVEN", "PROOF_OF_CONCEPT", "FUNCTIONAL", "HIGH", "NOT_DEFINED", "OTHER"}
Scores == {0, 25, 50, 75, 100}

V3Sample ==
    [CvssData |-> [BaseScore |-> 75, BaseSeverity |-> "HIGH", AttackVector |-> "NETWORK",
                   AttackComplexity |-> "LOW", PrivilegesRequired |-> "NONE",
                   IntegrityImpact |-> "HIGH", AvailabilityImpact |-> "NONE",
                   ExploitCodeMaturity |-> "FUNCTIONAL"],
     ExploitabilityScore |-> 39, ImpactScore |-> 59]

V2Sample ==
    [CvssData |-> [BaseScore |-> 50, AccessVector |-> "NETWORK", AccessComplexity |-> "LOW",
                   IntegrityImpact |-> "NONE", AvailabilityImpact |-> "NONE",
                   Exploitability |-> NilPtr],
     ExploitabilityScore |-> 100, ImpactScore |-> 29, BaseSeverity |-> "MEDIUM"]

V3Firsts ==
    { [V3Sample EXCEPT !.CvssData.AttackVector = v] : v \in AttackVectors } \cup
    { [V3Sample EXCEPT !.CvssData.AttackComplexity = v] : v \in Complexities } \cup
    { [V3Sample EXCEPT !.CvssData.PrivilegesRequired = v] : v \in Privileges } \cup
    { [V3Sample EXCEPT !.CvssData.IntegrityImpact = v] : v \in CiaV3 } \cup
    { [V3Sample EXCEPT !.CvssData.AvailabilityImpact = v] : v \in CiaV3 } \cup
    { [V3Sample EXCEPT !.CvssData.BaseSeverity = v] : v \in Severities } \cup
    { [V3Sample EXCEPT !.CvssData.ExploitCodeMaturity = v] : v \in Maturities } \cup
    { [V3Sample EXCEPT !.CvssData.BaseScore = v] : v \in Scores }

V2Firsts ==
    { [V2Sample EXCEPT !.CvssData.AccessVector = v] : v \in AttackVectors } \cup
    { [V2Sample EXCEPT !.CvssData.AccessComplexity = v] : v \in Complexities } \cup
    { [V2Sample EXCEPT !.CvssData.IntegrityImpact = v] : v \in CiaV2 } \cup
    { [V2Sample EXCEPT !.CvssData.AvailabilityImpact = v] : v \in CiaV2 } \cup
    { [V2Sample EXCEPT !.BaseSeverity = v] : v \in Severities } \cup
    { [V2Sample EXCEPT !.CvssData.Exploitability = v] : v \in Maturities } \cup
    { [V2Sample EXCEPT !.CvssData.BaseScore = v] : v \in Scores }

V3Others ==
    { [CvssData |-> [BaseScore |-> 68, BaseSeverity |-> "MEDIUM", AttackVector |-> "LOCAL",
                     AttackComplexity |-> "HIGH", PrivilegesRequired |-> "LOW",
                     IntegrityImpact |-> "LOW", AvailabilityImpact |-> "LOW",
                     ExploitCodeMaturity |-> NilPtr],
       ExploitabilityScore |-> 28, ImpactScore |-> 39],
      [CvssData |-> [BaseScore |-> 98, BaseSeverity |-> "CRITICAL",
                     AttackVector |-> "ADJACENT_NETWORK",
                     AttackComplexity |-> "OTHER", PrivilegesRequired |-> "HIGH",
                     IntegrityImpact |-> "NONE", AvailabilityImpact |-> "HIGH",
                     ExploitCodeMaturity |-> "UNPROVEN"],
       ExploitabilityScore |-> 18, ImpactScore |-> 60] }

V2Others ==
    { [CvssData |-> [BaseScore |-> 21, AccessVector |-> "LOCAL", AccessComplexity |-> "MEDIUM",
                     IntegrityImpact |-> "PARTIAL", AvailabilityImpact |-> "COMPLETE",
                     Exploitability |-> "HIGH"],
       ExploitabilityScore |-> 86, ImpactScore |-> 64, BaseSeverity |-> "LOW"],
      [CvssData |-> [BaseScore |-> 93, AccessVector |-> "ADJACENT_NETWORK",
                     AccessComplexity |-> "HIGH",
                     IntegrityImpact |-> "COMPLETE", AvailabilityImpact |-> "PARTIAL",
                     Exploitability |-> "UNPROVEN"],
       ExploitabilityScore |-> 49, ImpactScore |-> 100, BaseSeverity |-> "HIGH"] }

\* the sequences of up to n entries of S
SeqsUpTo(S, n) == UNION { [1..k -> S] : k \in 0..n }

\* the lists that are empty or begin with an entry of firsts
ListsOf(firsts, others) ==
    {<<>>} \cup { <<f>> \o t : f \in firsts, t \in SeqsUpTo(others, MaxList - 1) }

NilMetrics ==
    [isNil |-> TRUE, CvssMetricV31 |-> <<>>, CvssMetricV30 |-> <<>>, CvssMetricV2 |-> <<>>]

Versions == {"V31", "V30", "V2"}

----------------------------------------------------------------------------
(* Slices, times and the target record *)

\* a Go slice: nil, or a list of items that may be empty
NilSlice == [isNil |-> TRUE, items |-> <<>>]
Slice(items) == [isNil |-> FALSE, items |-> items]

\* time.Time{}
ZeroTime == [sec |-> "0001-01-01T00:00:00", ms |-> 0]

\* the zero value of an enum type of package enums
ZeroEnum == "<zero>"

\* tools.Vulnerability{}
ZeroVuln ==
    [ID |-> "", Type |-> "", Description |-> "", References |-> NilSlice,
     BaseCVSSScore |-> 0, BaseSeverity |-> ZeroEnum, ImpactScore |-> 0,
     Access |-> ZeroEnum, Complexity |-> ZeroEnum, PrivilegesRequired |-> ZeroEnum,
     IntegrityImpact |-> ZeroEnum, AvailabilityImpact |-> ZeroEnum,
     Exploit |-> [Score |-> 0, Exploitability |-> ZeroEnum],
     Published |-> ZeroTime, LastUpdated |-> ZeroTime,
     Likelihood |-> ZeroEnum, RiskScore |-> [fn |-> "zero", args |-> <<>>],
     VendorComments |-> NilSlice]

\* a *tools.Vulnerability
NilTarget == [isNil |-> TRUE, v |-> ZeroVuln]
PointerTo(v) == [isNil |-> FALSE, v |-> v]

----------------------------------------------------------------------------
(* Likelihood *)

\* faulty variant: the complexity is looked at for an adjacent network too
calculateLikelihoodSimpleAdjacentByComplexity(vuln) ==
    CASE vuln.Access = "Network" ->
            IF vuln.Complexity = "Low" THEN "VeryHigh" ELSE "High"
      [] vuln.Access = "AdjacentNetwork" ->
            IF vuln.Complexity = "Low" THEN "High" ELSE "Medium"
      [] vuln.Access = "Unknown" -> "Unknown"
      [] OTHER -> "Low"
calculateLikelihoodSimple(vuln) ==
    CASE vuln.Access = "Network" ->
            IF vuln.Complexity = "Low" THEN "VeryHigh" ELSE "High"
      [] vuln.Access = "AdjacentNetwork" -> "Medium"
      [] vuln.Access = "Unknown" -> "Unknown"
      [] OTHER -> "Low"

\* enums.CalculateRiskScore: an opaque function of its three arguments
CalculateRiskScore(likelihood, integrityImpact, availabilityImpact) ==
    [fn |-> "CalculateRiskScore",
     args |-> <<likelihood, integrityImpact, availabilityImpact>>]

----------------------------------------------------------------------------
(* Timestamps.  A timestamp string is what stands before the fraction, the   *)
(* number of fraction digits (0 when there is no fraction) and the fraction  *)
(* in milliseconds.                                                        *)

Stamp(text, fracDigits, ms) == [text |-> text, fracDigits |-> fracDigits, ms |-> ms]

\* the texts that match the layout 2006-01-02T15:04:05
MatchesLayout(text) == text \in {"2024-11-21T02:09:48", "2008-12-18T00:00:00"}

\* time.Parse with the layout 2006-01-02T15:04:05.000: the fraction is required
\* and has exactly three digits
parseNvdDateTime(dateStr) ==
    IF MatchesLayout(dateStr.text) /\ dateStr.fracDigits = 3
    THEN [time |-> [sec |-> dateStr.text, ms |-> dateStr.ms], err |-> NilErr]
    ELSE [time |-> ZeroTime,
          err |-> Wrap("failed to parse date using custom layout", <<"parsing time">>)]

\* time.Parse with the layout 2006-01-02T15:04:05: a fraction after the seconds
\* is accepted though the layout has none
parseNvdVendorCommentDateTime(dateStr) ==
    IF MatchesLayout(dateStr.text)
    THEN [time |-> [sec |-> dateStr.text, ms |-> dateStr.ms], err |-> NilErr]
    ELSE [time |-> ZeroTime,
          err |-> Wrap("failed to parse date using custom layout", <<"parsing time">>)]

----------------------------------------------------------------------------
(* Vendor comments *)

\* one iteration of the loop: the result list after comment
\* faulty variant: a comment whose timestamp fails to parse is kept
appendCommentAlways(resultComments, comment) ==
    Append(resultComments,
           [Organization |-> comment.Organization, Comment |-> comment.Comment,
            LastModified |-> parseNvdVendorCommentDateTime(comment.LastModified).time])
appendComment(resultComments, comment) ==
    LET r == parseNvdVendorCommentDateTime(comment.LastModified)
    IN  IF r.err # NilErr
        THEN resultComments
        ELSE Append(resultComments,
                    [Organization |-> comment.Organization, Comment |-> comment.Comment,
                     LastModified |-> r.time])

RECURSIVE rangeComments(_, _)
\* for _, comment := range nvdComments
rangeComments(resultComments, rest) ==
    IF rest = <<>> THEN resultComments
    ELSE rangeComments(appendComment(resultComments, Head(rest)), Tail(rest))

\* make([]tools.VendorComment, 0, len(nvdComments)) is not nil
parseVendorComments(nvdComments) == Slice(rangeComments(<<>>, nvdComments.items))

----------------------------------------------------------------------------
(* Enrichment *)

RECURSIVE getEnglishDescription(_)
getEnglishDescription(descriptions) ==
    IF descriptions = <<>> THEN ""
    ELSE IF Head(descriptions).Lang = "en" THEN Head(descriptions).Value
    ELSE getEnglishDescription(Tail(descriptions))

\* var refs []string stays nil when nothing is appended
getReferences(vulnReferences) ==
    IF vulnReferences = <<>> THEN NilSlice
    ELSE Slice([i \in 1..Len(vulnReferences) |-> vulnReferences[i].URL])

\* the assignments before the dates are parsed
\* faulty variant: vuln.Access is not assigned
copyFieldsNoAccess(vuln, nvdVuln) ==
    LET m == extractMetrics(nvdVuln.Cve.Metrics)
    IN  [vuln EXCEPT
            !.ID = nvdVuln.Cve.ID,
            !.Type = nvdVuln.Cve.SourceIdentifier,
            !.Description = getEnglishDescription(nvdVuln.Cve.Descriptions),
            !.References = getReferences(nvdVuln.Cve.References),
            !.BaseCVSSScore = m.baseCVSSScore,
            !.BaseSeverity = m.baseSeverity,
            !.ImpactScore = m.impactScore,
            !.Complexity = m.complexity,
            !.PrivilegesRequired = m.privilegesRequired,
            !.IntegrityImpact = m.integrityImpact,
            !.AvailabilityImpact = m.availabilityImpact,
            !.Exploit = m.exploitability]
\* faulty variant: without a metrics payload the CVSS fields are left alone
copyFieldsKeepWithoutMetrics(vuln, nvdVuln) ==
    LET m == extractMetrics(nvdVuln.Cve.Metrics)
        keep == nvdVuln.Cve.Metrics.isNil
    IN  [vuln EXCEPT
            !.ID = nvdVuln.Cve.ID,
            !.Type = nvdVuln.Cve.SourceIdentifier,
            !.Description = getEnglishDescription(nvdVuln.Cve.Descriptions),
            !.References = getReferences(nvdVuln.Cve.References),
            !.BaseCVSSScore = IF keep THEN @ ELSE m.baseCVSSScore,
            !.BaseSeverity = IF keep THEN @ ELSE m.baseSeverity,
            !.ImpactScore = IF keep THEN @ ELSE m.impactScore,
            !.Access = IF keep THEN @ ELSE m.access,
            !.Complexity = IF keep THEN @ ELSE m.complexity,
            !.PrivilegesRequired = IF keep THEN @ ELSE m.privilegesRequired,
            !.IntegrityImpact = IF keep THEN @ ELSE m.integrityImpact,
            !.AvailabilityImpact = IF keep THEN @ ELSE m.availabilityImpact,
            !.Exploit = IF keep THEN @ ELSE m.exploitability]
\* faulty variant: the vendor comments are assigned before the dates are parsed
copyFieldsAndComments(vuln, nvdVuln) ==
    LET m == extractMetrics(nvdVuln.Cve.Metrics)
    IN  [vuln EXCEPT
            !.ID = nvdVuln.Cve.ID,
            !.Type = nvdVuln.Cve.SourceIdentifier,
            !.Description = getEnglishDescription(nvdVuln.Cve.Descriptions),
            !.References = getReferences(nvdVuln.Cve.References),
            !.BaseCVSSScore = m.baseCVSSScore,
            !.BaseSeverity = m.baseSeverity,
            !.ImpactScore = m.impactScore,
            !.Access = m.access,
            !.Complexity = m.complexity,
            !.PrivilegesRequired = m.privilegesRequired,
            !.IntegrityImpact = m.integrityImpact,
            !.AvailabilityImpact = m.availabilityImpact,
            !.Exploit = m.exploitability,
            !.VendorComments = parseVendorComments(nvdVuln.Cve.VendorComments)]
copyFields(vuln, nvdVuln) ==
    LET m == extractMetrics(nvdVuln.Cve.Metrics)
    IN  [vuln EXCEPT
            !.ID = nvdVuln.Cve.ID,
            !.Type = nvdVuln.Cve.SourceIdentifier,
            !.Description = getEnglishDescription(nvdVuln.Cve.Descriptions),
            !.References = getReferences(nvdVuln.Cve.References),
            !.BaseCVSSScore = m.baseCVSSScore,
            !.BaseSeverity = m.baseSeverity,
            !.ImpactScore = m.impactScore,
            !.Access = m.access,
            !.Complexity = m.complexity,
            !.PrivilegesRequired = m.privilegesRequired,
            !.IntegrityImpact = m.integrityImpact,
            !.AvailabilityImpact = m.availabilityImpact,
            !.Exploit = m.exploitability]

\* the assignments after both dates parsed; riskArgs is what
\* enums.CalculateRiskScore was called with
deriveFields(vuln, nvdVuln) ==
    LET v1 == [vuln EXCEPT !.Likelihood = calculateLikelihoodSimple(vuln)]
        riskArgs == <<v1.Likelihood, v1.IntegrityImpact, v1.AvailabilityImpact>>
        v2 == [v1 EXCEPT !.RiskScore = CalculateRiskScore(riskArgs[1], riskArgs[2], riskArgs[3])]
    IN  [vuln |-> [v2 EXCEPT !.VendorComments =
                                  parseVendorComments(nvdVuln.Cve.VendorComments)],
         riskCalls |-> <<riskArgs>>]

\* the target after the call, the error returned and the calls made to
\* enums.CalculateRiskScore
enrichVulnerabilityWithNvdData(vuln, nvdVuln) ==
    IF vuln.isNil
    THEN [target |-> vuln, err |-> <<"expected a non-nil vulnerability">>, riskCalls |-> <<>>]
    ELSE LET v1 == copyFields(vuln.v, nvdVuln)
             published == parseNvdDateTime(nvdVuln.Cve.Published)
         IN  IF published.err # NilErr
             THEN [target |-> PointerTo(v1),
                   err |-> Wrap("failed to parse publishedTime", published.err),
                   riskCalls |-> <<>>]
             ELSE LET v2 == [v1 EXCEPT !.Published = published.time]
                      updated == parseNvdDateTime(nvdVuln.Cve.LastModified)
                  IN  IF updated.err # NilErr
                      THEN [target |-> PointerTo(v2),
                            err |-> Wrap("failed to parse updatedTime", updated.err),
                            riskCalls |-> <<>>]
                      ELSE LET v3 == [v2 EXCEPT !.LastUpdated = updated.time]
                               d == deriveFields(v3, nvdVuln)
                           IN  [target |-> PointerTo(d.vuln), err |-> NilErr,
                                riskCalls |-> d.riskCalls]

----------------------------------------------------------------------------
(* Inputs of the likelihood function, of the comment parser and of the      *)
(* enrichment                                                              *)

\* the constants of enums.AccessType and enums.ComplexityType, and one value
\* that is none of them
AccessTypes == {"Unknown", "Network", "AdjacentNetwork", "Local", "Physical", "Other"}
ComplexityTypes == {"Unknown", "Low", "Medium", "High", "Other"}
ImpactTypes == {"Unknown", "None", "Low", "High"}
LikelihoodTypes == {"Unknown", "Low", "Medium", "High", "VeryHigh"}

Date1Str == Stamp("2008-12-18T00:00:00", 0, 0)
Date2Str == Stamp("2024-11-21T02:09:48", 3, 80)
ProseDateStr == Stamp("2nd of May 2022 at 15:30:45", 0, 0)
EmptyDateStr == Stamp("", 0, 0)

RedHatComment ==
    [Organization |-> "Red Hat", Comment |-> "Not vulnerable.", LastModified |-> Date1Str]
BlueHatComment ==
    [Organization |-> "Blue Hat", Comment |-> "Not vulnerable.", LastModified |-> ProseDateStr]
FractionComment ==
    [Organization |-> "Canonical", Comment |-> "Fixed.", LastModified |-> Date2Str]
UndatedComment ==
    [Organization |-> "Red Hat", Comment |-> "Will not fix.", LastModified |-> EmptyDateStr]

CommentSamples == {RedHatComment, BlueHatComment, FractionComment, UndatedComment}

\* the strings the required timestamps are drawn from
PublishedStr == Stamp("2024-11-21T02:09:48", 3, 80)
DateStrings == {PublishedStr, Stamp("2008-12-18T00:00:00", 3, 0), Date1Str, ProseDateStr}

EmptyMetrics ==
    [isNil |-> FALSE, CvssMetricV31 |-> <<>>, CvssMetricV30 |-> <<>>, CvssMetricV2 |-> <<>>]

\* the payload that holds the single entry e, in the list of version v
Only(v, e) ==
    [isNil |-> FALSE,
     CvssMetricV31 |-> IF v = "V31" THEN <<e>> ELSE <<>>,
     CvssMetricV30 |-> IF v = "V30" THEN <<e>> ELSE <<>>,
     CvssMetricV2 |-> IF v = "V2" THEN <<e>> ELSE <<>>]

V3Local == CHOOSE e \in V3Others : e.CvssData.AttackVector = "LOCAL"
V2Adjacent == CHOOSE e \in V2Others : e.CvssData.AccessVector = "ADJACENT_NETWORK"

EnrichMetrics ==
    { NilMetrics, EmptyMetrics,
      Only("V31", V3Sample),
      Only("V31", [V3Sample EXCEPT !.CvssData.AttackComplexity = "HIGH"]),
      Only("V30", V3Local),
      Only("V2", V2Sample),
      Only("V2", V2Adjacent),
      [isNil |-> FALSE, CvssMetricV31 |-> <<>>,
       CvssMetricV30 |-> <<[V3Sample EXCEPT !.CvssData.AttackVector = "PHYSICAL"]>>,
       CvssMetricV2 |-> <<V2Sample>>] }

\* identifier, source identifier, descriptions and references
EnrichHeads ==
    { [ID |-> "CVE-TEST-V31", SourceIdentifier |-> "TestSource",
       Descriptions |-> <<[Lang |-> "en", Value |-> "Test Description v3.1"]>>,
       References |-> <<[URL |-> "http://example.com/ref1"]>>],
      [ID |-> "CVE-TEST-V2", SourceIdentifier |-> "OtherSource",
       Descriptions |-> <<[Lang |-> "es", Value |-> "Descripcion"],
                          [Lang |-> "en", Value |-> "Test Description v2"],
                          [Lang |-> "en", Value |-> "Second"]>>,
       References |-> <<[URL |-> "http://example.com/ref1"],
                        [URL |-> "http://example.com/ref2"]>>],
      [ID |-> "CVE-TEST-NO-METRICS", SourceIdentifier |-> "TestSource",
       Descriptions |-> <<[Lang |-> "es", Value |-> "Descripcion"]>>,
       References |-> <<>>] }

EnrichComments ==
    { NilSlice, Slice(<<>>), Slice(<<RedHatComment>>), Slice(<<BlueHatComment>>),
      Slice(<<FractionComment, UndatedComment, RedHatComment>>) }

NvdVuln(head, metrics, published, lastModified, comments) ==
    [Cve |-> [ID |-> head.ID, SourceIdentifier |-> head.SourceIdentifier,
              Descriptions |-> head.Descriptions, References |-> head.References,
              Metrics |-> metrics, Published |-> published,
              LastModified |-> lastModified, VendorComments |-> comments]]

HeadV31 == CHOOSE h \in EnrichHeads : h.ID = "CVE-TEST-V31"
HeadV2 == CHOOSE h \in EnrichHeads : h.ID = "CVE-TEST-V2"

\* the sources of the enrichments the caller's record went through before
PriorSources ==
    { NvdVuln(HeadV31, Only("V31", V3Sample), PublishedStr, PublishedStr,
              Slice(<<RedHatComment>>)),
      NvdVuln(HeadV2, Only("V2", V2Adjacent), PublishedStr, PublishedStr,
              Slice(<<FractionComment>>)),
      NvdVuln(HeadV2, NilMetrics, PublishedStr, PublishedStr, NilSlice),
      NvdVuln(HeadV31, Only("V30", V3Local), PublishedStr, ProseDateStr,
              Slice(<<RedHatComment>>)) }

\* the targets a caller passes: nil, a fresh record, a record enriched before
Targets ==
    { NilTarget, PointerTo(ZeroVuln) } \cup
    { enrichVulnerabilityWithNvdData(PointerTo(ZeroVuln), s).target : s \in PriorSources }

----------------------------------------------------------------------------
(* The state of a component that is not running *)

IdleFetch ==
    /\ pc = [p \in Calls |-> "idle"]
    /\ attempt = [p \in Calls |-> 0]
    /\ urlOK = [p \in Calls |-> TRUE]
    /\ hist = [p \in Calls |-> <<>>]
    /\ calls = [p \in Calls |-> 0]
    /\ delays = [p \in Calls |-> <<>>]
    /\ resp = [p \in Calls |-> NilResp]
    /\ err = [p \in Calls |-> NilErr]
    /\ overlapped = FALSE

IdleCPE ==
    /\ cpeToks = <<>>
    /\ cpeIn = <<>>
    /\ cpePc = "idle"
    /\ validErr = NilErr
    /\ stdOut = <<>>
    /\ stdErr = NilErr

IdleMetrics ==
    /\ metricsIn = NilMetrics
    /\ metricsOut = MetricDefaults
    /\ metPc = "idle"

IdleLikelihood ==
    /\ likeIn = ZeroVuln
    /\ likeOut = ZeroEnum
    /\ likePc = "idle"

IdleComments ==
    /\ commentsIn = NilSlice
    /\ commentsOut = NilSlice
    /\ comPc = "idle"

IdleEnrich ==
    /\ target = NilTarget
    /\ before = NilTarget
    /\ source = NvdVuln(HeadV31, NilMetrics, PublishedStr, PublishedStr, NilSlice)
    /\ enrichErr = NilErr
    /\ riskCalls = <<>>
    /\ enPc = "idle"

----------------------------------------------------------------------------
(* Fetcher: the calls *)

InitFetch ==
    /\ IdleCPE
    /\ IdleMetrics
    /\ IdleLikelihood
    /\ IdleComments
    /\ IdleEnrich
    /\ pc = [p \in Calls |-> "loop"]
    /\ attempt = [p \in Calls |-> 0]
    /\ urlOK \in [Calls -> BOOLEAN]
    /\ hist = [p \in Calls |-> <<>>]
    /\ calls = [p \in Calls |-> 0]
    /\ delays = [p \in Calls |-> <<>>]
    /\ resp = [p \in Calls |-> NilResp]
    /\ err = [p \in Calls |-> NilErr]
    /\ overlapped = FALSE

\* call q has started and has not returned
InFlight(q) == pc[q] # "done" /\ (pc[q] # "loop" \/ attempt[q] > 0)

Observe(p) == overlapped' = (overlapped \/ \E q \in Calls \ {p} : InFlight(q))

\* the loop test; when it fails, the code after the loop
LoopTest(p) ==
    /\ pc[p] = "loop"
    /\ IF LoopCond(attempt[AttemptSlot(p)])
       THEN /\ pc' = [pc EXCEPT ![p] = "fetch"]
            /\ UNCHANGED <<resp, err>>
       ELSE /\ pc' = [pc EXCEPT ![p] = "done"]
            /\ resp' = [resp EXCEPT ![p] = NilResp]
            /\ err' = [err EXCEPT ![p] = exhaustedErr(err[p])]
    /\ UNCHANGED <<attempt, urlOK, hist, calls, delays, restOfFetch>>

\* what the loop body does with attemptFetch's result r
Branch(p, r) ==
    IF r.err = NilErr
    THEN /\ pc' = [pc EXCEPT ![p] = "done"]
         /\ resp' = [resp EXCEPT ![p] = r.resp]
         /\ err' = [err EXCEPT ![p] = NilErr]
    ELSE IF ~shouldRetry(r.err)
    THEN /\ pc' = [pc EXCEPT ![p] = "done"]
         /\ resp' = [resp EXCEPT ![p] = NilResp]
         /\ err' = [err EXCEPT ![p] = nonRetriableErr(r.err)]
    ELSE /\ pc' = [pc EXCEPT ![p] = "sleep"]
         /\ resp' = [resp EXCEPT ![p] = r.resp]
         /\ err' = [err EXCEPT ![p] = r.err]

\* attemptFetch with a URL http.NewRequest rejects
AttemptFetchNoRequest(p) ==
    /\ pc[p] = "fetch"
    /\ ~urlOK[p]
    /\ Branch(p, requestError)
    /\ UNCHANGED <<attempt, urlOK, hist, calls, delays, restOfFetch>>

\* attemptFetch sending the request and receiving outcome o
AttemptFetch(p) ==
    /\ pc[p] = "fetch"
    /\ urlOK[p]
    /\ \E o \in Outcomes :
          /\ hist' = [hist EXCEPT ![p] = Append(@, o)]
          /\ calls' = [calls EXCEPT ![p] = @ + 1]
          /\ Branch(p, classify(o))
    /\ UNCHANGED <<attempt, urlOK, delays, restOfFetch>>

\* time.Sleep(retryDelay), then attempt++
Sleep(p) ==
    /\ pc[p] = "sleep"
    /\ delays' = [delays EXCEPT ![p] = Append(@, calculateRetryDelay(attempt[AttemptSlot(p)]))]
    /\ attempt' = [attempt EXCEPT ![AttemptSlot(p)] = @ + 1]
    /\ pc' = [pc EXCEPT ![p] = "loop"]
    /\ UNCHANGED <<urlOK, hist, calls, resp, err, restOfFetch>>

FetchStep(p) ==
    \/ LoopTest(p) /\ Observe(p)
    \/ AttemptFetchNoRequest(p) /\ Observe(p)
    \/ AttemptFetch(p) /\ Observe(p)
    \/ Sleep(p) /\ Observe(p)

NextFetch == \E p \in Calls : FetchStep(p)

SpecFetch == InitFetch /\ [][NextFetch]_vars

\* every call is a goroutine that is scheduled; a request ends within the
\* client's timeout and a sleep ends
FairSpecFetch == SpecFetch /\ \A p \in Calls : WF_vars(FetchStep(p))

----------------------------------------------------------------------------
(* The CPE functions applied to an input *)

InitCPE ==
    /\ IdleFetch
    /\ IdleMetrics
    /\ IdleLikelihood
    /\ IdleComments
    /\ IdleEnrich
    /\ \E n \in 1..MaxTokens, second \in SecondTokens :
          \E E \in EditSets(n) :
             \E f \in [E -> EditTokens] :
                cpeToks = TokenList(n, second, E, f)
    /\ cpeIn = Join(cpeToks, ":")
    /\ cpePc = "input"
    /\ validErr = NilErr
    /\ stdOut = <<>>
    /\ stdErr = NilErr

IsValidCPE ==
    /\ cpePc = "input"
    /\ validErr' = isValidCPE(cpeIn)
    /\ cpePc' = "validated"
    /\ UNCHANGED <<cpeToks, cpeIn, stdOut, stdErr, restOfCPE>>

StandardizeCPE ==
    /\ cpePc = "input"
    /\ LET r == standardizeCPE(cpeIn)
       IN  /\ stdOut' = r.out
           /\ stdErr' = r.err
    /\ cpePc' = "standardized"
    /\ UNCHANGED <<cpeToks, cpeIn, validErr, restOfCPE>>

\* the string standardizeCPE returned is handed to isValidCPE
ValidateStandardized ==
    /\ cpePc = "standardized"
    /\ stdErr = NilErr
    /\ validErr' = isValidCPE(stdOut)
    /\ cpePc' = "revalidated"
    /\ UNCHANGED <<cpeToks, cpeIn, stdOut, stdErr, restOfCPE>>

NextCPE == IsValidCPE \/ StandardizeCPE \/ ValidateStandardized

SpecCPE == InitCPE /\ [][NextCPE]_vars

----------------------------------------------------------------------------
(* The extractor applied to a payload *)

InitMetrics ==
    /\ IdleFetch
    /\ IdleCPE
    /\ IdleLikelihood
    /\ IdleComments
    /\ IdleEnrich
    /\ \/ metricsIn = NilMetrics
       \/ \E study \in Versions :
             \E l31 \in ListsOf(IF study = "V31" THEN V3Firsts ELSE V3Others, V3Others),
                l30 \in ListsOf(IF study = "V30" THEN V3Firsts ELSE V3Others, V3Others),
                l2 \in ListsOf(IF study = "V2" THEN V2Firsts ELSE V2Others, V2Others) :
                   metricsIn = [isNil |-> FALSE, CvssMetricV31 |-> l31,
                                CvssMetricV30 |-> l30, CvssMetricV2 |-> l2]
    /\ metricsOut = MetricDefaults
    /\ metPc = "input"

ExtractMetrics ==
    /\ metPc = "input"
    /\ metricsOut' = extractMetrics(metricsIn)
    /\ metPc' = "extracted"
    /\ UNCHANGED <<metricsIn, restOfMetrics>>

NextMetrics == ExtractMetrics

SpecMetrics == InitMetrics /\ [][NextMetrics]_vars

----------------------------------------------------------------------------
(* The likelihood function applied to a record *)

InitLikelihood ==
    /\ IdleFetch
    /\ IdleCPE
    /\ IdleMetrics
    /\ IdleComments
    /\ IdleEnrich
    /\ \E a \in AccessTypes, c \in ComplexityTypes, i \in ImpactTypes,
          l \in {ZeroEnum, "VeryHigh"} :
             likeIn = [ZeroVuln EXCEPT !.Access = a, !.Complexity = c,
                                       !.IntegrityImpact = i, !.Likelihood = l]
    /\ likeOut = ZeroEnum
    /\ likePc = "input"

CalculateLikelihoodSimple ==
    /\ likePc = "input"
    /\ likeOut' = calculateLikelihoodSimple(likeIn)
    /\ likePc' = "calculated"
    /\ UNCHANGED <<likeIn, restOfLikelihood>>

NextLikelihood == CalculateLikelihoodSimple

SpecLikelihood == InitLikelihood /\ [][NextLikelihood]_vars

----------------------------------------------------------------------------
(* The comment parser applied to a list *)

InitComments ==
    /\ IdleFetch
    /\ IdleCPE
    /\ IdleMetrics
    /\ IdleLikelihood
    /\ IdleEnrich
    /\ \/ commentsIn = NilSlice
       \/ \E k \in 0..MaxComments :
             \E l \in [1..k -> CommentSamples] : commentsIn = Slice(l)
    /\ commentsOut = NilSlice
    /\ comPc = "input"

ParseVendorComments ==
    /\ comPc = "input"
    /\ commentsOut' = parseVendorComments(commentsIn)
    /\ comPc' = "parsed"
    /\ UNCHANGED <<commentsIn, restOfComments>>

NextComments == ParseVendorComments

SpecComments == InitComments /\ [][NextComments]_vars

----------------------------------------------------------------------------
(* The enrichment applied to a target and a source *)

InitEnrich ==
    /\ IdleFetch
    /\ IdleCPE
    /\ IdleMetrics
    /\ IdleLikelihood
    /\ IdleComments
    /\ target \in Targets
    /\ before = target
    /\ \E head \in EnrichHeads, metrics \in EnrichMetrics,
          published \in DateStrings, lastModified \in DateStrings,
          comments \in EnrichComments :
             source = NvdVuln(head, metrics, published, lastModified, comments)
    /\ enrichErr = NilErr
    /\ riskCalls = <<>>
    /\ enPc = "input"

EnrichVulnerabilityWithNvdData ==
    /\ enPc = "input"
    /\ LET r == enrichVulnerabilityWithNvdData(target, source)
       IN  /\ target' = r.target
           /\ enrichErr' = r.err
           /\ riskCalls' = r.riskCalls
    /\ before' = target
    /\ enPc' = "returned"
    /\ UNCHANGED <<source, restOfEnrich>>

NextEnrich == EnrichVulnerabilityWithNvdData

SpecEnrich == InitEnrich /\ [][NextEnrich]_vars

----------------------------------------------------------------------------
(* The fetcher run alone: the loop of fetchNvdDataByCPE executed in one    *)
(* piece over the outcomes h its requests receive.  rest is what is left   *)
(* of h when the call returns, pending says the call wants another answer. *)

RECURSIVE SeqRun(_, _, _, _, _, _)
SeqRun(ok, h, a, n, ds, e) ==
    IF ~LoopCond(a)
    THEN [pending |-> FALSE, rest |-> h, calls |-> n, delays |-> ds,
          resp |-> NilResp, err |-> exhaustedErr(e)]
    ELSE IF ~ok
    THEN [pending |-> FALSE, rest |-> h, calls |-> n, delays |-> ds,
          resp |-> NilResp, err |-> nonRetriableErr(requestError.err)]
    ELSE IF h = <<>>
    THEN [pending |-> TRUE, rest |-> h, calls |-> n, delays |-> ds,
          resp |-> NilResp, err |-> e]
    ELSE LET r == classify(Head(h))
         IN  IF r.err = NilErr
             THEN [pending |-> FALSE, rest |-> Tail(h), calls |-> n + 1, delays |-> ds,
                   resp |-> r.resp, err |-> NilErr]
             ELSE IF ~shouldRetry(r.err)
             THEN [pending |-> FALSE, rest |-> Tail(h), calls |-> n + 1, delays |-> ds,
                   resp |-> NilResp, err |-> nonRetriableErr(r.err)]
             ELSE SeqRun(ok, Tail(h), a + 1, n + 1,
                         Append(ds, calculateRetryDelay(a)), r.err)

RunAlone(ok, h) == SeqRun(ok, h, 0, 0, <<>>, NilErr)

----------------------------------------------------------------------------
(* Properties of the fetcher *)

Done(p) == pc[p] = "done"

Is503(o) == o.kind = "http" /\ o.status = StatusServiceUnavailable
IsValid200(o) == o.kind = "http" /\ o.status = StatusOK /\ o.body \in {"json1", "json0"}
IsBadStatus(o) == o.kind = "http" /\ o.status \notin {StatusOK, StatusServiceUnavailable}
IsUndecodable200(o) == o.kind = "http" /\ o.status = StatusOK /\ o.body \notin {"json1", "json0"}
IsNonRetriable(o) == o.kind = "transport" \/ IsBadStatus(o) \/ IsUndecodable200(o)

All503(h) == \A i \in 1..Len(h) : Is503(h[i])
Last(h) == h[Len(h)]
Front(h) == SubSeq(h, 1, Len(h) - 1)

\* C1: a call whose every request was answered 503 returns only after exactly
\* maxRetries + 1 requests, and returns a nil response and an error that is
\* ErrNVDServiceUnavailable.
C1_AllUnavailable ==
    \A p \in Calls :
        (Done(p) /\ urlOK[p] /\ All503(hist[p])) =>
            /\ calls[p] = maxRetries + 1
            /\ Len(hist[p]) = maxRetries + 1
            /\ resp[p] = NilResp
            /\ ErrorsIs(err[p], ErrNVDServiceUnavailable)

C1_Witness ==
    \E p \in Calls :
        Done(p) /\ urlOK[p] /\ All503(hist[p]) /\ calls[p] = maxRetries + 1

\* C2: a call answered 503 k times (k <= maxRetries) and nothing else has not
\* returned, so it goes on to the next request; a call answered 503 k times and
\* then 200 with a decodable body has made exactly k + 1 requests and returned the
\* decoded body with no error; and no request follows a successful one.
C2_RetryThenSuccess ==
    \A p \in Calls :
        /\ (urlOK[p] /\ All503(hist[p]) /\ Len(hist[p]) <= maxRetries) => ~Done(p)
        /\ \A i \in 1..Len(hist[p]) : IsValid200(hist[p][i]) => i = Len(hist[p])
        /\ (hist[p] # <<>> /\ IsValid200(Last(hist[p]))) =>
              /\ All503(Front(hist[p]))
              /\ Len(hist[p]) <= maxRetries + 1
              /\ Done(p)
              /\ calls[p] = Len(hist[p])
              /\ resp[p] = Decode(Last(hist[p]).body).resp
              /\ ~resp[p].isNil
              /\ err[p] = NilErr

C2_Witness ==
    \E p \in Calls :
        /\ Done(p)
        /\ Len(hist[p]) = maxRetries + 1
        /\ All503(Front(hist[p]))
        /\ IsValid200(Last(hist[p]))
        /\ resp[p].TotalResults = 1

\* C3: a non-retriable outcome is the last one the call receives: the call has
\* returned, it slept only after the 503 answers before it, and its error carries
\* the cause and is not ErrNVDServiceUnavailable.
C3_NonRetriableAborts ==
    \A p \in Calls :
        /\ \A i \in 1..Len(hist[p]) : IsNonRetriable(hist[p][i]) => i = Len(hist[p])
        /\ (hist[p] # <<>> /\ IsNonRetriable(Last(hist[p]))) =>
              /\ Done(p)
              /\ calls[p] = Len(hist[p])
              /\ Len(delays[p]) = Len(hist[p]) - 1
              /\ resp[p] = NilResp
              /\ err[p] # NilErr
              /\ ~ErrorsIs(err[p], ErrNVDServiceUnavailable)
              /\ IsBadStatus(Last(hist[p])) => ErrorsIs(err[p], ErrNVDAPIStatus)
              /\ IsUndecodable200(Last(hist[p])) => ErrorsIs(err[p], ErrNVDDecode)
              /\ Last(hist[p]).kind = "transport" => ErrorsIs(err[p], "transport error")

C3_Witness ==
    \E p, q \in Calls :
        /\ Done(p) /\ Len(hist[p]) = 3 /\ IsBadStatus(Last(hist[p]))
        /\ Done(q) /\ Len(hist[q]) = 1 /\ IsUndecodable200(Last(hist[q]))

\* C4: a returned error that is ErrNVDServiceUnavailable means the call made
\* exactly maxRetries + 1 requests and every one was answered 503.
C4_UnavailableOnlyWhenExhausted ==
    \A p \in Calls :
        (Done(p) /\ ErrorsIs(err[p], ErrNVDServiceUnavailable)) =>
            /\ calls[p] = maxRetries + 1
            /\ Len(hist[p]) = maxRetries + 1
            /\ All503(hist[p])

C4_Witness ==
    \E p \in Calls :
        Done(p) /\ ErrorsIs(err[p], ErrNVDServiceUnavailable) /\ Len(delays[p]) > 0

\* C5: whatever the requests receive, a call never makes more than
\* maxRetries + 1 requests, and it eventually returns with either a response or
\* an error.
C5_Terminates ==
    /\ [](\A p \in Calls : calls[p] <= maxRetries + 1)
    /\ <>[](\A p \in Calls : Done(p) /\ (resp[p].isNil <=> err[p] # NilErr))

C5_Witness ==
    \E p, q \in Calls :
        /\ Done(p) /\ calls[p] = maxRetries + 1 /\ ~resp[p].isNil
        /\ Done(q) /\ calls[q] = 2 /\ resp[q].isNil

\* C6: a call that ran interleaved with others made the requests, slept the
\* delays and returned the result that the same call makes, sleeps and returns
\* when run alone over the outcomes its own requests received.
C6_CallsIndependent ==
    \A p \in Calls :
        LET r == RunAlone(urlOK[p], hist[p])
        IN  /\ r.rest = <<>>
            /\ r.calls = calls[p]
            /\ Done(p) =>
                  /\ ~r.pending
                  /\ r.delays = delays[p]
                  /\ r.resp = resp[p]
                  /\ r.err = err[p]

C6_Witness ==
    /\ overlapped
    /\ \E p, q \in Calls :
          /\ Done(p) /\ calls[p] = maxRetries + 1 /\ ErrorsIs(err[p], ErrNVDServiceUnavailable)
          /\ Done(q) /\ calls[q] = 2 /\ err[q] = NilErr

\* C16: the backoff delay is taken only before a retry: no delay precedes the
\* first request, a call that returned after n requests slept exactly n - 1
\* delays, and a 503 on the final attempt makes the call return without sleeping.
C16_DelayOnlyBeforeRetry ==
    \A p \in Calls :
        /\ calls[p] = 0 => delays[p] = <<>>
        /\ (Done(p) /\ calls[p] > 0) => Len(delays[p]) = calls[p] - 1
        /\ (Done(p) /\ calls[p] = maxRetries + 1 /\ Is503(Last(hist[p]))) =>
              Len(delays[p]) = maxRetries

\* what the code does instead: it sleeps after every 503, the last one included
C16_SleepAfterEvery503 ==
    \A p \in Calls :
        Done(p) =>
            Len(delays[p]) = Cardinality({ i \in 1..Len(hist[p]) : Is503(hist[p][i]) })

Abs(x) == IF x < 0 THEN -x ELSE x

\* d is min(maxRetryDelay, b + j) for some jitter j with |j| <= 20% of b
WithinJitter(b, d) ==
    \/ d < maxRetryDelay /\ 5 * Abs(d - b) <= b
    \/ d = maxRetryDelay /\ 5 * (maxRetryDelay - b) <= b

\* C17: the i-th delay a call sleeps is the delay of attempt i - 1: it is
\* min(15 s, b + j) with b = 5 s * 2^attempt and |j| <= 20% of b, it is at most
\* 15 s, the delay of attempt 0 lies between 4 s and 6 s, and no delay is shorter
\* than the one before it.
C17_DelayBounds ==
    \A p \in Calls :
        \A i \in 1..Len(delays[p]) :
            LET b == initialRetryDelay * Pow2(i - 1)
                d == delays[p][i]
            IN  /\ i - 1 <= maxRetries
                /\ d = calculateRetryDelay(i - 1)
                /\ WithinJitter(b, d)
                /\ d <= 15000
                /\ i = 1 => (4000 <= d /\ d <= 6000)
                /\ i > 1 => delays[p][i - 1] <= d

C17_Witness ==
    \E p \in Calls :
        /\ Len(delays[p]) = maxRetries + 1
        /\ delays[p][2] < maxRetryDelay
        /\ delays[p][3] = maxRetryDelay

----------------------------------------------------------------------------
(* Properties of the CPE functions, stated over the tokens the input was   *)
(* written from.  Token k of the code (from 0) is cpeToks[k + 1].          *)

\* the input with its tokens 6 to 12 replaced by t
WithTail(toks, t) == [i \in 1..Len(toks) |-> IF i \in 7..13 THEN t ELSE toks[i]]

\* C7: isValidCPE returns no error exactly when the input has 13 tokens, token 0
\* is cpe, token 1 is 2.3 and none of tokens 2 to 5 is *; the result is the same
\* whatever tokens 6 to 12 are.
C7_ValidIff ==
    cpePc = "validated" =>
        /\ (validErr = NilErr) <=>
              /\ Len(cpeToks) = 13
              /\ cpeToks[1] = sCpe
              /\ cpeToks[2] = s23
              /\ \A k \in 2..5 : cpeToks[k + 1] # sStar
        /\ validErr # NilErr => ErrorsIs(validErr, ErrInvalidCPE)
        /\ \A t \in {sStar, <<"x">>, <<>>} :
              (validErr = NilErr) <=> (isValidCPE(Join(WithTail(cpeToks, t), ":")) = NilErr)

C7_Witness ==
    /\ cpePc = "validated"
    /\ validErr = NilErr
    /\ cpeToks[7] = sStar
    /\ cpeToks[8] = <<>>
    /\ cpeToks[6] # sStar

\* the input begins with cpe:/
BeginsLegacy(toks) ==
    /\ Len(toks) >= 2
    /\ toks[1] = sCpe
    /\ toks[2] # <<>>
    /\ toks[2][1] = "/"

\* the fields of a legacy input: what follows cpe:/ between the colons
LegacyFields(toks) ==
    [i \in 1..(Len(toks) - 1) |-> IF i = 1 THEN Tail(toks[2]) ELSE toks[i + 1]]

\* C8: standardizeCPE fails, with the empty string and an error, exactly when the
\* input does not begin with cpe:/ or has fewer than 4 fields after it.
C8_FailsIff ==
    cpePc = "standardized" =>
        LET bad == ~BeginsLegacy(cpeToks) \/ Len(cpeToks) - 1 < 4
        IN  /\ (stdErr # NilErr) <=> bad
            /\ stdErr # NilErr => stdOut = <<>>
            /\ stdErr = NilErr => stdOut # <<>>

C8_Witness ==
    /\ cpePc = "standardized"
    /\ BeginsLegacy(cpeToks)
    /\ Len(cpeToks) - 1 = 3
    /\ \A i \in 1..3 : LegacyFields(cpeToks)[i] \notin {<<>>, sStar}
    /\ stdErr # NilErr
    /\ stdOut = <<>>

\* field i of the expected output, for the input fields F
ExpectedField(F, i) ==
    IF i > Len(F) THEN sStar
    ELSE IF i = 1 /\ F[1] # <<>> /\ F[1][1] = "/" THEN Tail(F[1])
    ELSE F[i]

\* C9: for a legacy input with n >= 4 fields the output is cpe:2.3: followed by
\* exactly 11 fields: the input's first min(n, 11) fields (field 0 less one leading
\* slash), then * up to the 11th.
C9_ElevenFields ==
    (cpePc = "standardized" /\ BeginsLegacy(cpeToks) /\ Len(cpeToks) - 1 >= 4) =>
        LET F == LegacyFields(cpeToks)
            want == [i \in 1..11 |-> ExpectedField(F, i)]
        IN  /\ stdErr = NilErr
            /\ HasPrefix(stdOut, StrictPrefix)
            /\ Split(TrimPrefix(stdOut, StrictPrefix), ":") = want
            /\ stdOut = StrictPrefix \o Join(want, ":")

C9_Witness ==
    /\ cpePc = "standardized"
    /\ BeginsLegacy(cpeToks)
    /\ Len(cpeToks) - 1 = 13
    /\ cpeToks[2] = <<"/", "/", "a">>
    /\ stdErr = NilErr

\* C20 as stated: every string standardizeCPE returns without error is accepted
\* by isValidCPE.
C20_StandardizedIsValid ==
    cpePc = "revalidated" => validErr = NilErr

\* C20 as the code has it: the string standardizeCPE returns without error is
\* accepted by isValidCPE exactly when none of the input's first four fields
\* (part, less one leading slash, vendor, product, version) is *; empty fields
\* are accepted.
C20_ValidUnlessWildcard ==
    cpePc = "revalidated" =>
        LET F == LegacyFields(cpeToks)
        IN  /\ BeginsLegacy(cpeToks)
            /\ Len(F) >= 4
            /\ (validErr = NilErr) <=> \A i \in 1..4 : ExpectedField(F, i) # sStar
            /\ validErr # NilErr => ErrorsIs(validErr, ErrInvalidCPE)

C20_Witness ==
    /\ cpePc = "revalidated"
    /\ LegacyFields(cpeToks)[2] = <<>>
    /\ LegacyFields(cpeToks)[4] = <<>>
    /\ Len(cpeToks) = 5
    /\ validErr = NilErr

----------------------------------------------------------------------------
(* Properties of the extractor *)

\* out holds the scores of entry e
ScoresOf(out, e) ==
    /\ out.baseCVSSScore = e.CvssData.BaseScore
    /\ out.impactScore = e.ImpactScore
    /\ out.exploitability.Score = e.ExploitabilityScore

\* C10: the values extractMetrics returns are those of the first entry of the
\* first non-empty list in the order 3.1, 3.0, 2.0: they equal what it returns for
\* a payload holding that entry alone, whatever the later entries and the later
\* lists hold.
C10_Precedence ==
    (metPc = "extracted" /\ ~metricsIn.isNil) =>
        LET l31 == metricsIn.CvssMetricV31
            l30 == metricsIn.CvssMetricV30
            l2 == metricsIn.CvssMetricV2
        IN  /\ l31 # <<>> =>
                  /\ metricsOut = extractMetrics(Only("V31", l31[1]))
                  /\ ScoresOf(metricsOut, l31[1])
            /\ (l31 = <<>> /\ l30 # <<>>) =>
                  /\ metricsOut = extractMetrics(Only("V30", l30[1]))
                  /\ ScoresOf(metricsOut, l30[1])
            /\ (l31 = <<>> /\ l30 = <<>> /\ l2 # <<>>) =>
                  /\ metricsOut = extractMetrics(Only("V2", l2[1]))
                  /\ ScoresOf(metricsOut, l2[1])

C10_Witness ==
    /\ metPc = "extracted"
    /\ ~metricsIn.isNil
    /\ Len(metricsIn.CvssMetricV31) = 2
    /\ metricsIn.CvssMetricV30 # <<>>
    /\ metricsIn.CvssMetricV2 # <<>>
    /\ metricsIn.CvssMetricV31[1] # metricsIn.CvssMetricV31[2]
    /\ metricsOut.access = "Physical"
    /\ metricsOut.baseCVSSScore # metricsIn.CvssMetricV30[1].CvssData.BaseScore
    /\ metricsOut.baseCVSSScore # metricsIn.CvssMetricV2[1].CvssData.BaseScore

\* the impact the 2.0 table gives
ImpactOfV2(cia) ==
    IF cia = "COMPLETE" THEN "High"
    ELSE IF cia = "PARTIAL" THEN "Low"
    ELSE IF cia = "NONE" THEN "None"
    ELSE "Unknown"

\* C19: when the 2.0 list is the one selected, base severity is the band of the
\* entry's numeric base score whatever the entry's textual severity is, integrity
\* and availability impact map COMPLETE to High, PARTIAL to Low, NONE to None and
\* anything else to Unknown, and privileges-required is Unknown.
C19_V2Mapping ==
    (/\ metPc = "extracted"
     /\ ~metricsIn.isNil
     /\ metricsIn.CvssMetricV31 = <<>>
     /\ metricsIn.CvssMetricV30 = <<>>
     /\ metricsIn.CvssMetricV2 # <<>>) =>
        LET m == metricsIn.CvssMetricV2[1]
        IN  /\ metricsOut.baseSeverity = MapCVSS(m.CvssData.BaseScore)
            /\ \A t \in Severities :
                  extractMetrics(Only("V2", [m EXCEPT !.BaseSeverity = t])).baseSeverity
                      = metricsOut.baseSeverity
            /\ metricsOut.integrityImpact = ImpactOfV2(m.CvssData.IntegrityImpact)
            /\ metricsOut.availabilityImpact = ImpactOfV2(m.CvssData.AvailabilityImpact)
            /\ metricsOut.privilegesRequired = "Unknown"

C19_Witness ==
    /\ metPc = "extracted"
    /\ ~metricsIn.isNil
    /\ metricsIn.CvssMetricV31 = <<>>
    /\ metricsIn.CvssMetricV30 = <<>>
    /\ Len(metricsIn.CvssMetricV2) = 2
    /\ metricsIn.CvssMetricV2[1].BaseSeverity = "CRITICAL"
    /\ metricsIn.CvssMetricV2[2].CvssData.IntegrityImpact = "COMPLETE"
    /\ metricsOut.baseSeverity = "Medium"
    /\ metricsOut.integrityImpact = "None"

----------------------------------------------------------------------------
(* Properties of the likelihood function and of the comment parser *)

\* the likelihood table
LikelihoodOf(access, complexity) ==
    IF access = "Network" THEN (IF complexity = "Low" THEN "VeryHigh" ELSE "High")
    ELSE IF access = "AdjacentNetwork" THEN "Medium"
    ELSE IF access = "Local" THEN "Low"
    ELSE IF access = "Unknown" THEN "Unknown"
    ELSE "Low"

\* C12: calculateLikelihoodSimple returns a likelihood for every access and
\* complexity, the one of the table: Network with Low gives VeryHigh, Network
\* with anything else High, AdjacentNetwork Medium, Local Low, Unknown Unknown,
\* Physical and any other access Low; for an access other than Network the
\* result is the same whatever the complexity.
C12_LikelihoodTable ==
    likePc = "calculated" =>
        /\ likeOut \in LikelihoodTypes
        /\ likeOut = LikelihoodOf(likeIn.Access, likeIn.Complexity)
        /\ likeIn.Access # "Network" =>
              \A c \in ComplexityTypes :
                  calculateLikelihoodSimple([likeIn EXCEPT !.Complexity = c]) = likeOut

C12_Witness ==
    /\ likePc = "calculated"
    /\ likeIn.Access = "AdjacentNetwork"
    /\ likeIn.Complexity = "Low"
    /\ likeIn.Likelihood = "VeryHigh"
    /\ likeOut = "Medium"

\* the timestamp of comment c parses
Parses(c) == parseNvdVendorCommentDateTime(c.LastModified).err = NilErr

\* the index in list of its k-th comment whose timestamp parses
KeptIndex(list, k) ==
    CHOOSE i \in 1..Len(list) :
        Parses(list[i]) /\ Cardinality({ j \in 1..i : Parses(list[j]) }) = k

\* C13: parseVendorComments returns a list that is not nil and holds, in their
\* order, exactly the comments whose timestamp parses, each with the
\* organization and the text of the input and the parsed time, never the zero
\* time; an empty input gives an empty list.
C13_KeepsParsed ==
    comPc = "parsed" =>
        LET list == commentsIn.items
            out == commentsOut.items
        IN  /\ ~commentsOut.isNil
            /\ Len(out) = Cardinality({ i \in 1..Len(list) : Parses(list[i]) })
            /\ \A k \in 1..Len(out) :
                  LET c == list[KeptIndex(list, k)]
                  IN  /\ out[k].Organization = c.Organization
                      /\ out[k].Comment = c.Comment
                      /\ out[k].LastModified =
                            [sec |-> c.LastModified.text, ms |-> c.LastModified.ms]
                      /\ out[k].LastModified # ZeroTime
            /\ list = <<>> => out = <<>>

C13_Witness ==
    /\ comPc = "parsed"
    /\ commentsIn.items = <<FractionComment, BlueHatComment, RedHatComment>>
    /\ Len(commentsOut.items) = 2
    /\ commentsOut.items[2].Organization = "Red Hat"

----------------------------------------------------------------------------
(* Properties of the enrichment *)

Returned == enPc = "returned"

\* both required timestamps of the source parse
DatesParse ==
    /\ parseNvdDateTime(source.Cve.Published).err = NilErr
    /\ parseNvdDateTime(source.Cve.LastModified).err = NilErr

\* the source has no metrics payload, or one whose three lists are empty
NoMetrics ==
    \/ source.Cve.Metrics.isNil
    \/ /\ source.Cve.Metrics.CvssMetricV31 = <<>>
       /\ source.Cve.Metrics.CvssMetricV30 = <<>>
       /\ source.Cve.Metrics.CvssMetricV2 = <<>>

\* C11: enriching a record from a source without metrics (no payload, or three
\* empty lists) whose two timestamps parse returns no error and leaves the
\* scores at 0 and base severity, access, complexity, privileges-required, both
\* impacts, the exploit category and the likelihood at Unknown.
C11_NoMetricsDefaults ==
    (Returned /\ ~before.isNil /\ NoMetrics /\ DatesParse) =>
        /\ enrichErr = NilErr
        /\ target.v.BaseCVSSScore = 0
        /\ target.v.ImpactScore = 0
        /\ target.v.Exploit.Score = 0
        /\ target.v.BaseSeverity = "Unknown"
        /\ target.v.Access = "Unknown"
        /\ target.v.Complexity = "Unknown"
        /\ target.v.PrivilegesRequired = "Unknown"
        /\ target.v.IntegrityImpact = "Unknown"
        /\ target.v.AvailabilityImpact = "Unknown"
        /\ target.v.Exploit.Exploitability = "Unknown"
        /\ target.v.Likelihood = "Unknown"

C11_Witness ==
    /\ Returned
    /\ ~before.isNil
    /\ before.v.Access = "Network"
    /\ before.v.BaseCVSSScore = 75
    /\ source.Cve.Metrics = EmptyMetrics
    /\ enrichErr = NilErr
    /\ target.v.Access = "Unknown"

\* C14: the enrichment is atomic: when it returns an error, every field of the
\* caller's record has the value it had before the call.
C14_AtomicOnError ==
    (Returned /\ enrichErr # NilErr) => target = before

\* what holds of a failed call: nothing is written through a nil target; a date
\* that fails to parse leaves the fields assigned before it at the source's values
C14_PartialOnError ==
    (Returned /\ enrichErr # NilErr) =>
        /\ before.isNil => target = before
        /\ ~before.isNil =>
              /\ target.v.ID = source.Cve.ID
              /\ target.v.Access = extractMetrics(source.Cve.Metrics).access
              /\ target.v.LastUpdated = before.v.LastUpdated

\* C15: after a successful call the likelihood is calculateLikelihoodSimple of
\* the access and complexity extracted from this source, and
\* enums.CalculateRiskScore was called once, with that likelihood and the
\* impacts extracted from this source.
C15_DerivedFromThisCall ==
    (Returned /\ enrichErr = NilErr) =>
        LET m == extractMetrics(source.Cve.Metrics)
            l == calculateLikelihoodSimple(
                     [ZeroVuln EXCEPT !.Access = m.access, !.Complexity = m.complexity])
        IN  /\ target.v.Likelihood = l
            /\ riskCalls = << <<l, m.integrityImpact, m.availabilityImpact>> >>
            /\ target.v.RiskScore =
                  CalculateRiskScore(l, m.integrityImpact, m.availabilityImpact)

C15_Witness ==
    /\ Returned
    /\ enrichErr = NilErr
    /\ ~before.isNil
    /\ before.v.Access = "Network"
    /\ before.v.Likelihood = "VeryHigh"
    /\ before.v.IntegrityImpact = "High"
    /\ target.v.Access = "Local"
    /\ target.v.Likelihood = "Low"
    /\ riskCalls = << <<"Low", "Low", "Low">> >>

\* C18: when a required timestamp fails to parse the call returns an error with
\* the vendor comments, the likelihood and the risk score as they were before
\* the call and without calling enums.CalculateRiskScore; when both parse, the
\* call returns no error whatever the timestamps of the vendor comments are.
C18_DatesAbortBeforeComments ==
    (Returned /\ ~before.isNil) =>
        /\ ~DatesParse =>
              /\ enrichErr # NilErr
              /\ target.v.VendorComments = before.v.VendorComments
              /\ target.v.Likelihood = before.v.Likelihood
              /\ target.v.RiskScore = before.v.RiskScore
              /\ riskCalls = <<>>
        /\ DatesParse => enrichErr = NilErr

C18_Witness ==
    /\ Returned
    /\ ~before.isNil
    /\ before.v.VendorComments = parseVendorComments(Slice(<<RedHatComment>>))
    /\ before.v.Likelihood = "VeryHigh"
    /\ source.Cve.VendorComments = Slice(<<FractionComment, UndatedComment, RedHatComment>>)
    /\ source.Cve.Metrics = Only("V30", V3Local)
    /\ parseNvdDateTime(source.Cve.Published).err = NilErr
    /\ source.Cve.LastModified = Date1Str
    /\ enrichErr # NilErr
    /\ target.v.Access = "Local"
    /\ target.v.Likelihood = "VeryHigh"

\* the record a fresh target holds after it was enriched with the source
FreshResult == enrichVulnerabilityWithNvdData(PointerTo(ZeroVuln), source)

\* C21: the record a successful call leaves depends on the source only: every
\* field the call writes (identifier, type, description, references, the CVSS
\* fields, both dates, likelihood, risk score, vendor comments) has the value
\* that enriching a fresh record with the same source gives, whatever the
\* target held before; a source without metrics resets the CVSS fields and the
\* likelihood to 0 and Unknown.
C21_ResultFromSourceOnly ==
    (Returned /\ enrichErr = NilErr) =>
        LET fresh == FreshResult.target.v
            got == target.v
        IN  /\ FreshResult.err = NilErr
            /\ got.ID = fresh.ID
            /\ got.Type = fresh.Type
            /\ got.Description = fresh.Description
            /\ got.References = fresh.References
            /\ got.BaseCVSSScore = fresh.BaseCVSSScore
            /\ got.BaseSeverity = fresh.BaseSeverity
            /\ got.ImpactScore = fresh.ImpactScore
            /\ got.Access = fresh.Access
            /\ got.Complexity = fresh.Complexity
            /\ got.PrivilegesRequired = fresh.PrivilegesRequired
            /\ got.IntegrityImpact = fresh.IntegrityImpact
            /\ got.AvailabilityImpact = fresh.AvailabilityImpact
            /\ got.Exploit = fresh.Exploit
            /\ got.Published = fresh.Published
            /\ got.LastUpdated = fresh.LastUpdated
            /\ got.Likelihood = fresh.Likelihood
            /\ got.RiskScore = fresh.RiskScore
            /\ got.VendorComments = fresh.VendorComments
            /\ riskCalls = FreshResult.riskCalls
            /\ NoMetrics =>
                  /\ got.BaseCVSSScore = 0
                  /\ got.Access = "Unknown"
                  /\ got.IntegrityImpact = "Unknown"
                  /\ got.Likelihood = "Unknown"

C21_Witness ==
    /\ Returned
    /\ enrichErr = NilErr
    /\ ~before.isNil
    /\ before.v # ZeroVuln
    /\ before.v.Access = "AdjacentNetwork"
    /\ before.v.BaseCVSSScore = 93
    /\ before.v.VendorComments.items # <<>>
    /\ before.v.References.items # <<>>
    /\ source.Cve.Metrics = NilMetrics
    /\ source.Cve.References = <<>>
    /\ source.Cve.VendorComments = NilSlice
    /\ target.v.Access = "Unknown"
    /\ target.v.References = NilSlice
    /\ target.v.VendorComments = Slice(<<>>)

====
